---- MODULE Spec2Model ----
(***************************************************************************)
(* Graph construction by the IPU tile primitives of                        *)
(*   src/jax_ipu_research/tile/tile_array_primitives_impl.cpp              *)
(*   src/jax_ipu_research/tile/tile_interpreter_primitives_impl.cpp        *)
(*                                                                         *)
(* A tensor handle is [cells, dtype]: cells[i] is the storage of slot i-1  *)
(* of the leading axis (an item is one storage unit, its inner shape is    *)
(* not modelled).  Two handles share storage iff they share a cell.        *)
(* The graph-building context records what a primitive adds: variables     *)
(* with their tile mapping, compute sets and vertices.  A program is a     *)
(* sequence of Copy and Execute steps.                                     *)
(*                                                                         *)
(* One state machine run is one primitive invocation: Init is the context  *)
(* a caller hands over (input tensors already in the graph, empty outputs  *)
(* list), the primitive's action is its whole program() function, Run is   *)
(* the execution of the returned program on the device memory.             *)
(***************************************************************************)
EXTENDS Integers, Sequences, FiniteSets, TLC

VARIABLES
  pc,        \* "ready" | "built" (program returned) | "error" (exception) | "ran"
  prim,      \* the primitive the caller invokes on this context
  ndebug,    \* build flavour: TRUE when assertions are compiled out
  inputs,    \* const std::vector<poplar::Tensor>& inputs
  attrs,     \* the decoded attribute payload of the invocation
  graph,     \* poplar::Graph& graph: what the invocation added to it
  prog,      \* the returned poplar::program::Sequence
  outputs,   \* std::vector<poplar::Tensor>& outputs
  err,       \* the exception that ended the invocation ("" when none)
  mem,       \* device memory after the program ran: cell -> value
  executed   \* compute sets executed by the program, in order

vars == <<pc, prim, ndebug, inputs, attrs, graph, prog, outputs, err, mem, executed>>

---------------------------------------------------------------------------
(* Bounds of the enumerated invocations.                                   *)

\* Largest leading-axis extent of an input tensor, and longest tile / index
\* array of a descriptor.
MaxRows == 2
\* Tiles are 0..MaxTile.
MaxTile == 1

Rows == 1..MaxRows
Tiles == 0..MaxTile
\* Number of input tensors handed to a primitive.
InputCounts == 0..2

\* poplar element types: those of the barrier's reinterpretation table (lines
\* 216-237) and the 64-bit integers, which the table does not list.  (The
\* width of poplar::LONG / UNSIGNED_LONG depends on the target and is not
\* enumerated.)
PoplarTypes ==
  {"BOOL", "CHAR", "SIGNED_CHAR", "UNSIGNED_CHAR", "SHORT", "UNSIGNED_SHORT", "HALF",
   "INT", "UNSIGNED_INT", "FLOAT", "LONGLONG", "UNSIGNED_LONGLONG"}

SeqsOfLen(S, lens) == UNION {[1..k -> S] : k \in lens}

Min(a, b) == IF a < b THEN a ELSE b

RECURSIVE SumRows(_, _)
SumRows(rs, k) == IF k = 0 THEN 0 ELSE rs[k] + SumRows(rs, k - 1)

---------------------------------------------------------------------------
(* Tensors and the graph-building context.                                 *)

\* The input tensors: input k owns the cells after those of inputs 1..k-1.
MkInputs(rs, ds) ==
  [k \in 1..Len(rs) |->
     [cells |-> [i \in 1..rs[k] |-> SumRows(rs, k - 1) + i], dtype |-> ds[k]]]

TotalCells(ins) == SumRows([k \in 1..Len(ins) |-> Len(ins[k].cells)], Len(ins))

\* The context before the invocation: only the inputs exist.
EmptyGraph(ins) ==
  [nextCell |-> TotalCells(ins) + 1, vars |-> <<>>, sets |-> 0, vertices |-> <<>>]

\* Result of an invocation that threw: the context and outputs as they were
\* when the exception left the function; no program is returned.
Throw(g, outs, e) == [graph |-> g, prog |-> <<>>, outputs |-> outs, err |-> e]

Return(g, p, outs) == [graph |-> g, prog |-> p, outputs |-> outs, err |-> ""]

\* poplar::Graph::addVariable: one new unmapped item.
addVariable(g, dtype) ==
  [graph |-> [g EXCEPT !.nextCell = g.nextCell + 1,
                       !.vars = Append(g.vars, [cells |-> <<g.nextCell>>, tiles |-> <<>>])],
   tensor |-> [cells |-> <<g.nextCell>>, dtype |-> dtype]]

\* poplar::Graph::setTileMapping on the variable added last.
setTileMapping(g, tile) ==
  [g EXCEPT !.vars[Len(g.vars)].tiles = [i \in 1..Len(g.vars[Len(g.vars)].cells) |-> tile]]

\* createShardedVariable (tile_array_utils.hpp): a new tensor with one
\* partition per entry of tile_array, partition i mapped to tile_array[i].
createShardedVariable(g, dtype, tile_array) ==
  LET n == Len(tile_array)
      cells == [i \in 1..n |-> g.nextCell + i - 1]
  IN [graph |-> [g EXCEPT !.nextCell = g.nextCell + n,
                          !.vars = Append(g.vars, [cells |-> cells, tiles |-> tile_array])],
      tensor |-> [cells |-> cells, dtype |-> dtype]]

Copy(src, dst) == [op |-> "Copy", src |-> src, dst |-> dst]
Execute(cs) == [op |-> "Execute", cs |-> cs]

\* Cells the invocation allocated (the inputs' cells come first).
FreshCells(g, ins) == (TotalCells(ins) + 1)..(g.nextCell - 1)

InputCells(ins) == 1..TotalCells(ins)

\* Tile a freshly allocated cell is mapped to; the empty set when unmapped.
TilesOfCell(g, c) ==
  UNION {{g.vars[v].tiles[i] : i \in {j \in DOMAIN g.vars[v].cells :
                                        g.vars[v].cells[j] = c /\ j \in DOMAIN g.vars[v].tiles}} :
         v \in DOMAIN g.vars}

CopySteps(p) == {s \in 1..Len(p) : p[s].op = "Copy"}
ExecuteSteps(p) == {s \in 1..Len(p) : p[s].op = "Execute"}

\* Outcome of an out-of-bounds std::vector access (undefined behaviour):
\* the process dies, or the access yields an arbitrary value.
GarbageVals == -1..MaxRows
UBOutcomes == [crash : BOOLEAN, val : GarbageVals]
NoUB == [crash |-> FALSE, val |-> 0]

---------------------------------------------------------------------------
(* TilePutShardedPrimitive::program                                        *)

TilePutShardedAllocFirst(g, ins, outs, tile_array) ==
  LET a == createShardedVariable(g, IF Len(ins) > 0 THEN ins[1].dtype ELSE "FLOAT", tile_array)
  IN IF Len(ins) # 1 THEN Throw(a.graph, Append(outs, a.tensor), "poplibs_error")
     ELSE IF Len(ins[1].cells) # Len(tile_array)
          THEN Throw(a.graph, Append(outs, a.tensor), "poplibs_error")
          ELSE Return(a.graph, <<Copy(ins[1].cells, a.tensor.cells)>>, Append(outs, a.tensor))

TilePutShardedSwappedCopy(g, ins, outs, tile_array) ==
  IF Len(ins) # 1 THEN Throw(g, outs, "poplibs_error")
  ELSE IF Len(ins[1].cells) # Len(tile_array) THEN Throw(g, outs, "poplibs_error")
  ELSE LET a == createShardedVariable(g, ins[1].dtype, tile_array)
       IN Return(a.graph, <<Copy(a.tensor.cells, ins[1].cells)>>, Append(outs, a.tensor))

TilePutShardedProgram(g, ins, outs, tile_array) ==
  IF Len(ins) # 1 THEN Throw(g, outs, "poplibs_error")
  ELSE LET input == ins[1] IN
    IF Len(input.cells) # Len(tile_array) THEN Throw(g, outs, "poplibs_error")
    ELSE LET a == createShardedVariable(g, input.dtype, tile_array)
         IN Return(a.graph, <<Copy(input.cells, a.tensor.cells)>>, Append(outs, a.tensor))

---------------------------------------------------------------------------
(* TileGatherPrimitive::program                                            *)

\* The loop body after the reads of indices and previous_tiles (lines 174-186).
GatherItemAlwaysCopy(st, input_item, input_tile, output_tile, dtype) ==
  LET a == addVariable(st.graph, dtype)
  IN [st EXCEPT !.graph = setTileMapping(a.graph, output_tile),
                !.seq = Append(st.seq, Copy(<<input_item>>, a.tensor.cells)),
                !.output_slices = Append(st.output_slices, a.tensor.cells[1])]

GatherItemNoCopy(st, input_item, input_tile, output_tile, dtype) ==
  IF input_tile = output_tile
  THEN [st EXCEPT !.output_slices = Append(st.output_slices, input_item)]
  ELSE LET a == addVariable(st.graph, dtype)
       IN [st EXCEPT !.graph = setTileMapping(a.graph, output_tile),
                     !.output_slices = Append(st.output_slices, a.tensor.cells[1])]

GatherItem(st, input_item, input_tile, output_tile, dtype) ==
  IF input_tile = output_tile
  THEN [st EXCEPT !.output_slices = Append(st.output_slices, input_item)]
  ELSE LET a == addVariable(st.graph, dtype)
       IN [st EXCEPT !.graph = setTileMapping(a.graph, output_tile),
                     !.seq = Append(st.seq, Copy(<<input_item>>, a.tensor.cells)),
                     !.output_slices = Append(st.output_slices, a.tensor.cells[1])]

\* The loop of lines 168-187, iteration idx (1-based here), on the loop state
\* st = [graph, seq, output_slices, err].
RECURSIVE GatherLoop(_, _, _, _, _)
GatherLoop(st, input, params, ub, idx) ==
  IF st.err # "" \/ idx > Len(params.tiles) THEN st
  ELSE
    LET haveIdx == idx <= Len(params.indices)
        gather_idx == IF haveIdx THEN params.indices[idx] ELSE ub.val
        haveTile == gather_idx >= 0 /\ gather_idx < Len(params.previous_tiles)
        input_tile == IF haveTile THEN params.previous_tiles[gather_idx + 1] ELSE ub.val
    IN IF ~haveIdx /\ ub.crash THEN [st EXCEPT !.err = "crash"]
       ELSE IF gather_idx < 0 \/ gather_idx >= Len(input.cells)
            THEN [st EXCEPT !.err = "poplar_error"]
       ELSE IF ~haveTile /\ ub.crash THEN [st EXCEPT !.err = "crash"]
       ELSE GatherLoop(GatherItem(st, input.cells[gather_idx + 1], input_tile,
                                  params.tiles[idx], input.dtype),
                       input, params, ub, idx + 1)

TileGatherProgram(g, ins, outs, params, ub) ==
  IF Len(ins) # 1 THEN Throw(g, outs, "poplibs_error")
  ELSE
    LET st == GatherLoop([graph |-> g, seq |-> <<>>, output_slices |-> <<>>, err |-> ""],
                         ins[1], params, ub, 1)
    IN IF st.err # "" THEN Throw(st.graph, outs, st.err)
       ELSE Return(st.graph, st.seq,
                   Append(outs, [cells |-> st.output_slices, dtype |-> ins[1].dtype]))

---------------------------------------------------------------------------
(* TileDataBarrierPrimitive::program                                       *)

\* Performance estimate set on every barrier vertex.
BarrierPerfEstimate == 14

\* poplar::Graph::addComputeSet: the new compute set's id.
addComputeSet(g) == [g EXCEPT !.sets = g.sets + 1]

\* poplar::Graph::addVertex, with the calls made on the new vertex.
addVertex(g, cs, vname, tile, perf, conns, attributes) ==
  [g EXCEPT !.vertices = Append(g.vertices,
     [cs |-> cs, vname |-> vname, tile |-> tile, perf |-> perf, conns |-> conns,
      attributes |-> attributes])]

\* poplar::Tensor::reinterpret: same storage, another element type.
Reinterpret(t, dtype) == [err |-> "", tensor |-> [t EXCEPT !.dtype = dtype]]

tileBarrierReinterpretTensorPassThrough(t) ==
  IF t.dtype \in {"BOOL", "CHAR", "SIGNED_CHAR", "UNSIGNED_CHAR"}
  THEN Reinterpret(t, "UNSIGNED_CHAR")
  ELSE IF t.dtype \in {"SHORT", "UNSIGNED_SHORT", "HALF"}
  THEN Reinterpret(t, "UNSIGNED_SHORT")
  ELSE IF t.dtype \in {"INT", "UNSIGNED_INT", "FLOAT"}
  THEN Reinterpret(t, "UNSIGNED_INT")
  ELSE Reinterpret(t, t.dtype)

tileBarrierReinterpretTensor(t) ==
  IF t.dtype = "BOOL" THEN Reinterpret(t, "UNSIGNED_CHAR")
  ELSE IF t.dtype = "CHAR" THEN Reinterpret(t, "UNSIGNED_CHAR")
  ELSE IF t.dtype = "SIGNED_CHAR" THEN Reinterpret(t, "UNSIGNED_CHAR")
  ELSE IF t.dtype = "UNSIGNED_CHAR" THEN Reinterpret(t, "UNSIGNED_CHAR")
  ELSE IF t.dtype = "SHORT" THEN Reinterpret(t, "UNSIGNED_SHORT")
  ELSE IF t.dtype = "UNSIGNED_SHORT" THEN Reinterpret(t, "UNSIGNED_SHORT")
  ELSE IF t.dtype = "HALF" THEN Reinterpret(t, "UNSIGNED_SHORT")
  ELSE IF t.dtype = "INT" THEN Reinterpret(t, "UNSIGNED_INT")
  ELSE IF t.dtype = "UNSIGNED_INT" THEN Reinterpret(t, "UNSIGNED_INT")
  ELSE IF t.dtype = "FLOAT" THEN Reinterpret(t, "UNSIGNED_INT")
  ELSE [err |-> "runtime_error", tensor |-> t]

\* tensors_per_tiles[tile].push_back(slot) (line 281); buckets is indexed by
\* tile + 1.  An index outside the vector is undefined behaviour: the process
\* dies or the write is lost.
BucketPushBySlot(st, tile, k, slot, ub) ==
  IF k - 1 < 0 \/ k - 1 >= Len(st.buckets)
  THEN IF ub.crash THEN [st EXCEPT !.err = "crash"] ELSE st
  ELSE [st EXCEPT !.buckets[k] = Append(st.buckets[k], slot)]

BucketPush(st, tile, k, slot, ub) ==
  IF tile < 0 \/ tile >= Len(st.buckets)
  THEN IF ub.crash THEN [st EXCEPT !.err = "crash"] ELSE st
  ELSE [st EXCEPT !.buckets[tile + 1] = Append(st.buckets[tile + 1], slot)]

\* The inner loop of lines 280-282 for one input, slot k (1-based here).
RECURSIVE BarrierSlotLoop(_, _, _, _, _)
BarrierSlotLoop(st, t, tiles, ub, k) ==
  IF st.err # "" \/ k > Len(tiles) THEN st
  ELSE IF (tiles[k] < 0 \/ tiles[k] >= Len(st.buckets)) /\ ub.crash
       THEN [st EXCEPT !.err = "crash"]
  ELSE IF k > Len(t.cells) THEN [st EXCEPT !.err = "poplar_error"]
  ELSE BarrierSlotLoop(BucketPush(st, tiles[k], k, [cell |-> t.cells[k], dtype |-> t.dtype], ub),
                       t, tiles, ub, k + 1)

\* The outer loop of lines 276-283, input idx (1-based here), on the loop
\* state st = [buckets, err].  Reading inputs_tiles past its end is undefined
\* behaviour: the process dies or an arbitrary tile array is read.
RECURSIVE BarrierInputLoop(_, _, _, _, _)
BarrierInputLoop(st, ins, params, ub, idx) ==
  IF st.err # "" \/ idx > Len(ins) THEN st
  ELSE
    LET r == tileBarrierReinterpretTensor(ins[idx])
        haveTiles == idx <= Len(params.inputs_tiles)
        tiles == IF haveTiles THEN params.inputs_tiles[idx]
                 ELSE IF ub.val < 0 THEN <<>> ELSE <<ub.val>>
    IN IF r.err # "" THEN [st EXCEPT !.err = r.err]
       ELSE IF ~haveTiles /\ ub.crash THEN [st EXCEPT !.err = "crash"]
       ELSE BarrierInputLoop(BarrierSlotLoop(st, r.tensor, tiles, ub, 1),
                             ins, params, ub, idx + 1)

\* The loop of lines 287-300 from tile on: one vertex per non-empty bucket.
RECURSIVE BarrierVertexLoop(_, _, _, _, _)
BarrierVertexLoop(g, cs, vname, buckets, tile) ==
  IF tile >= Len(buckets) THEN g
  ELSE IF Len(buckets[tile + 1]) = 0 THEN BarrierVertexLoop(g, cs, vname, buckets, tile + 1)
  ELSE BarrierVertexLoop(
         addVertex(g, cs, vname, tile, BarrierPerfEstimate,
                   <<[port |-> "data", view |-> "vector", slots |-> buckets[tile + 1]]>>, <<>>),
         cs, vname, buckets, tile + 1)

\* Lines 285-303, once the buckets are filled.
BarrierEmitExecutePerVertex(g, ins, outs, params, buckets) ==
  LET g1 == addComputeSet(g)
      g2 == BarrierVertexLoop(g1, g1.sets, params.vname, buckets, 0)
  IN Return(g2, [v \in 1..Len(g2.vertices) |-> Execute(g1.sets)], ins)

BarrierEmitReinterpretedOutputs(g, ins, outs, params, buckets) ==
  LET g1 == addComputeSet(g)
      g2 == BarrierVertexLoop(g1, g1.sets, params.vname, buckets, 0)
  IN Return(g2, <<Execute(g1.sets)>>,
            [k \in 1..Len(ins) |-> tileBarrierReinterpretTensor(ins[k]).tensor])

BarrierEmit(g, ins, outs, params, buckets) ==
  LET g1 == addComputeSet(g)
      g2 == BarrierVertexLoop(g1, g1.sets, params.vname, buckets, 0)
  IN Return(g2, <<Execute(g1.sets)>>, ins)

TileDataBarrierProgram(g, ins, outs, params, ub) ==
  IF Len(ins) < 1 THEN Throw(g, outs, "poplibs_error")
  ELSE
    LET st == BarrierInputLoop([buckets |-> [t \in 1..(params.max_tile + 1) |-> <<>>],
                                err |-> ""], ins, params, ub, 1)
    IN IF st.err # "" THEN Throw(g, outs, st.err)
       ELSE BarrierEmit(g, ins, outs, params, st.buckets)

---------------------------------------------------------------------------
(* TileMapEquation and TileMapEquationCall::program                        *)

\* FMT_ASSERT(cond, msg) (fmt): with assertions compiled in, a false
\* condition terminates the process; under NDEBUG the macro checks nothing.
AssertFails(cond, nd) == ~nd /\ ~cond

\* std::find_if over inputs_info by name, then std::distance (lines 168-172):
\* the 0-based position of the first match, inputs_info.size() when none.
RECURSIVE FindInputFrom(_, _, _)
FindInputFrom(inputs_info, name, k) ==
  IF k > Len(inputs_info) THEN Len(inputs_info)
  ELSE IF inputs_info[k].name = name THEN k - 1
  ELSE FindInputFrom(inputs_info, name, k + 1)

FindInput(inputs_info, name) == FindInputFrom(inputs_info, name, 1)

\* The loop of lines 165-182 from output descriptor k on, on the loop state
\* st = [graph, outputs, err].
RECURSIVE AllocateLoop(_, _, _, _)
AllocateLoop(st, eq, ins, k) ==
  IF st.err # "" \/ k > Len(eq.outputs_info) THEN st
  ELSE
    LET outinfo == eq.outputs_info[k] IN
    IF outinfo.iotype = "InOut"
    THEN LET idx == FindInput(eq.inputs_info, outinfo.name) IN
         IF idx < 0 \/ idx >= Len(ins)
         THEN [st EXCEPT !.err = "out_of_range"]
         ELSE AllocateLoop([st EXCEPT !.outputs = Append(st.outputs, ins[idx + 1])],
                           eq, ins, k + 1)
    ELSE IF outinfo.iotype = "Out"
    THEN LET a == createShardedVariable(st.graph, outinfo.dtype, eq.tiles) IN
         AllocateLoop([st EXCEPT !.graph = a.graph, !.outputs = Append(st.outputs, a.tensor)],
                      eq, ins, k + 1)
    ELSE [st EXCEPT !.err = "runtime_error"]

\* allocateOutputTensors taking every InOut output for an Out output.
allocateOutputTensorsAllFresh(g, eq, ins, nd) ==
  LET asOut(o) == IF o.iotype = "InOut" THEN [o EXCEPT !.iotype = "Out"] ELSE o
      eq2 == [eq EXCEPT !.outputs_info = [k \in 1..Len(eq.outputs_info) |-> asOut(eq.outputs_info[k])]]
  IN IF AssertFails(Len(ins) = Len(eq.inputs_info), nd)
     THEN [graph |-> g, outputs |-> <<>>, err |-> "assert_fail"]
     ELSE AllocateLoop([graph |-> g, outputs |-> <<>>, err |-> ""], eq2, ins, 1)

\* TileMapEquation::allocateOutputTensors.
allocateOutputTensors(g, eq, ins, nd) ==
  IF AssertFails(Len(ins) = Len(eq.inputs_info), nd)
  THEN [graph |-> g, outputs |-> <<>>, err |-> "assert_fail"]
  ELSE AllocateLoop([graph |-> g, outputs |-> <<>>, err |-> ""], eq, ins, 1)

\* connectReshape connecting a slice of any rank other than 1 as it is.
connectReshapeAnyRank(info, t, tidx) ==
  IF tidx > Len(t.cells) THEN [err |-> "poplar_error"]
  ELSE [err |-> "", conn |-> [port |-> info.name, view |-> IF info.rank = 1 THEN "flat" ELSE "asis",
                              slots |-> <<[cell |-> t.cells[tidx], dtype |-> t.dtype]>>]]

\* VertexIOInfo::connectReshape on the slice of tensor t at tile position
\* tidx (1-based here); t[tidx] throws in poplar when the tensor is shorter.
connectReshape(info, t, tidx) ==
  IF tidx > Len(t.cells) THEN [err |-> "poplar_error"]
  ELSE IF info.rank = 1
  THEN [err |-> "", conn |-> [port |-> info.name, view |-> "flat",
                              slots |-> <<[cell |-> t.cells[tidx], dtype |-> t.dtype]>>]]
  ELSE IF info.rank = 2
  THEN [err |-> "", conn |-> [port |-> info.name, view |-> "asis",
                              slots |-> <<[cell |-> t.cells[tidx], dtype |-> t.dtype]>>]]
  ELSE [err |-> "poplibs_error"]

\* The input connections made to the first slice whatever the tile position.
RECURSIVE ConnectInputsFirstSlice(_, _, _, _, _, _)
ConnectInputsFirstSlice(vs, eq, ins, tidx, ub, k) ==
  IF vs.err # "" \/ k > Len(ins) THEN vs
  ELSE
    LET haveInfo == k <= Len(eq.inputs_info)
        info == IF haveInfo THEN eq.inputs_info[k] ELSE [name |-> "garbage", rank |-> ub.val]
        r == connectReshape(info, ins[k], 1)
    IN IF ~haveInfo /\ ub.crash THEN [vs EXCEPT !.err = "crash"]
       ELSE IF r.err # "" THEN [vs EXCEPT !.err = r.err]
       ELSE ConnectInputsFirstSlice([vs EXCEPT !.conns = Append(vs.conns, r.conn)],
                                    eq, ins, tidx, ub, k + 1)

\* Lines 215-218: connect inputs k.. of the vertex at tile position tidx, on
\* vs = [conns, err].  Reading inputs_info past its end (possible only with
\* the assertions compiled out) is undefined behaviour.
RECURSIVE ConnectInputs(_, _, _, _, _, _)
ConnectInputs(vs, eq, ins, tidx, ub, k) ==
  IF vs.err # "" \/ k > Len(ins) THEN vs
  ELSE
    LET haveInfo == k <= Len(eq.inputs_info)
        info == IF haveInfo THEN eq.inputs_info[k] ELSE [name |-> "garbage", rank |-> ub.val]
        r == connectReshape(info, ins[k], tidx)
    IN IF ~haveInfo /\ ub.crash THEN [vs EXCEPT !.err = "crash"]
       ELSE IF r.err # "" THEN [vs EXCEPT !.err = r.err]
       ELSE ConnectInputs([vs EXCEPT !.conns = Append(vs.conns, r.conn)],
                          eq, ins, tidx, ub, k + 1)

\* The output connections made for the InOut outputs as well.
RECURSIVE ConnectOutputsAnyRole(_, _, _, _, _)
ConnectOutputsAnyRole(vs, eq, outs, tidx, k) ==
  IF vs.err # "" \/ k > Len(outs) THEN vs
  ELSE LET r == connectReshape(eq.outputs_info[k], outs[k], tidx) IN
       IF r.err # "" THEN [vs EXCEPT !.err = r.err]
       ELSE ConnectOutputsAnyRole([vs EXCEPT !.conns = Append(vs.conns, r.conn)], eq, outs, tidx, k + 1)

\* Lines 220-226: connect the Out outputs k.. of the vertex.
RECURSIVE ConnectOutputs(_, _, _, _, _)
ConnectOutputs(vs, eq, outs, tidx, k) ==
  IF vs.err # "" \/ k > Len(outs) THEN vs
  ELSE IF eq.outputs_info[k].iotype = "Out"
  THEN LET r == connectReshape(eq.outputs_info[k], outs[k], tidx) IN
       IF r.err # "" THEN [vs EXCEPT !.err = r.err]
       ELSE ConnectOutputs([vs EXCEPT !.conns = Append(vs.conns, r.conn)], eq, outs, tidx, k + 1)
  ELSE ConnectOutputs(vs, eq, outs, tidx, k + 1)

\* Lines 206-234: the vertices of tile positions tidx.., on st = [graph, err].
\* A vertex whose connection throws stays in the graph as far as it was built.
RECURSIVE VertexLoop(_, _, _, _, _, _, _)
VertexLoop(st, cs, eq, ins, outs, ub, tidx) ==
  IF st.err # "" \/ tidx > Len(eq.tiles) THEN st
  ELSE
    LET vi == ConnectInputs([conns |-> <<>>, err |-> ""], eq, ins, tidx, ub, 1)
        vo == ConnectOutputs(vi, eq, outs, tidx, 1)
        attributes == IF vo.err = "" THEN eq.attributes_u32 \o eq.attributes_f32 ELSE <<>>
        g == addVertex(st.graph, cs, eq.vname, eq.tiles[tidx],
                       IF eq.perf_estimate > 0 THEN eq.perf_estimate ELSE 0,
                       vo.conns, attributes)
    IN VertexLoop([graph |-> g, err |-> vo.err], cs, eq, ins, outs, ub, tidx + 1)

\* TileMapEquation::add(graph, prog, inputs, outputs, debug_prefix).
TileMapEquationAdd(g, eq, ins, outs, ub, nd) ==
  IF AssertFails(Len(ins) = Len(eq.inputs_info), nd) \/ AssertFails(Len(outs) = Len(eq.outputs_info), nd)
  THEN [graph |-> g, prog |-> <<>>, err |-> "assert_fail"]
  ELSE
    LET g1 == addComputeSet(g)
        st == VertexLoop([graph |-> g1, err |-> ""], g1.sets, eq, ins, outs, ub, 1)
    IN IF st.err # "" THEN [graph |-> st.graph, prog |-> <<>>, err |-> st.err]
       ELSE [graph |-> st.graph, prog |-> <<Execute(g1.sets)>>, err |-> ""]

\* TileMapEquationCall::program: add(graph, prog, inputs, debug_prefix)
\* allocates the outputs, adds the vertices and returns the outputs, which
\* program() assigns to its outputs argument.
TileMapEquationCallProgram(g, ins, outs, eq, ub, nd) ==
  LET a == allocateOutputTensors(g, eq, ins, nd) IN
  IF a.err # "" THEN Throw(a.graph, outs, a.err)
  ELSE LET r == TileMapEquationAdd(a.graph, eq, ins, a.outputs, ub, nd) IN
       IF r.err # "" THEN Throw(r.graph, outs, r.err)
       ELSE Return(r.graph, r.prog, a.outputs)

---------------------------------------------------------------------------
(* Execution of a returned program.                                        *)

InitialMem(g, ins) == [c \in 1..(g.nextCell - 1) |-> IF c <= TotalCells(ins) THEN c ELSE 0]

ExecStep(m, s) ==
  IF s.op = "Copy"
  THEN [c \in DOMAIN m |->
          IF \E j \in 1..Len(s.dst) : s.dst[j] = c
          THEN m[s.src[CHOOSE j \in 1..Len(s.dst) : s.dst[j] = c]]
          ELSE m[c]]
  ELSE m

RECURSIVE RunProgram(_, _, _)
RunProgram(m, p, k) == IF k > Len(p) THEN m ELSE RunProgram(ExecStep(m, p[k]), p, k + 1)

RECURSIVE ExecutedSets(_, _)
ExecutedSets(p, k) ==
  IF k > Len(p) THEN <<>>
  ELSE IF p[k].op = "Execute" THEN <<p[k].cs>> \o ExecutedSets(p, k + 1)
       ELSE ExecutedSets(p, k + 1)

---------------------------------------------------------------------------
(* The invocations.                                                        *)

InitContext(p, ins, nd) ==
  /\ pc = "ready"
  /\ prim = p
  /\ ndebug = nd
  /\ inputs = ins
  /\ attrs = [none |-> TRUE]
  /\ graph = EmptyGraph(ins)
  /\ prog = <<>>
  /\ outputs = <<>>
  /\ err = ""
  /\ mem = <<>>
  /\ executed = <<>>

Finish(r, a) ==
  /\ pc' = IF r.err = "" THEN "built" ELSE "error"
  /\ attrs' = a
  /\ graph' = r.graph
  /\ prog' = r.prog
  /\ outputs' = r.outputs
  /\ err' = r.err
  /\ UNCHANGED <<prim, ndebug, inputs, mem, executed>>

\* Input lists of the placement primitives: one input of any extent, or a
\* wrong number of single-slot inputs.
PlacementRows ==
  {rs \in SeqsOfLen(Rows, InputCounts) : Len(rs) = 1 \/ \A k \in 1..Len(rs) : rs[k] = 1}

PlacementInputs(types) ==
  {MkInputs(rs, [k \in 1..Len(rs) |-> t]) : rs \in PlacementRows, t \in types}

TileArrays == SeqsOfLen(Tiles, 0..MaxRows)

InitSharded == \E ins \in PlacementInputs(PoplarTypes) : InitContext("sharded", ins, FALSE)

TilePutSharded ==
  /\ pc = "ready" /\ prim = "sharded"
  /\ \E tile_array \in TileArrays :
       Finish(TilePutShardedProgram(graph, inputs, outputs, tile_array),
              [tile_array |-> tile_array])

InitGather == \E ins \in PlacementInputs({"FLOAT"}) : InitContext("gather", ins, FALSE)

\* previous_tiles is the tile mapping of the input; indices and tiles are
\* enumerated independently (their lengths may differ, indices may be out of
\* range).
GatherParams(ins) ==
  [previous_tiles : [1..(IF Len(ins) > 0 THEN Len(ins[1].cells) ELSE 1) -> Tiles],
   indices : SeqsOfLen(0..MaxRows, 0..MaxRows),
   tiles : SeqsOfLen(Tiles, 1..MaxRows)]

TileGather ==
  /\ pc = "ready" /\ prim = "gather"
  /\ \E params \in GatherParams(inputs) :
       \E ub \in (IF Len(params.indices) < Len(params.tiles) THEN UBOutcomes ELSE {NoUB}) :
          Finish(TileGatherProgram(graph, inputs, outputs, params, ub), params)

\* Input lists of the barrier: up to two inputs with at most MaxRows slots in
\* all.  Among single-slot inputs one takes every element type (the others
\* are FLOAT); longer inputs take an 8-bit and a 32-bit type.
BarrierRows ==
  {rs \in SeqsOfLen(Rows, InputCounts) : SumRows(rs, Len(rs)) <= MaxRows}

BarrierTypes(rs) ==
  IF \A k \in 1..Len(rs) : rs[k] = 1
  THEN {ds \in [1..Len(rs) -> PoplarTypes] : Cardinality({k \in 1..Len(rs) : ds[k] # "FLOAT"}) <= 1}
  ELSE [1..Len(rs) -> {"CHAR", "FLOAT"}]

InitBarrier ==
  \E rs \in BarrierRows : \E ds \in BarrierTypes(rs) :
     InitContext("barrier", MkInputs(rs, ds), FALSE)

\* Barrier descriptors: max_tile from -1 (no bucket); one tile array per
\* input, one missing, or one too many; each array as long as its input, or
\* shorter, or one longer; tile indices from -1 to MaxTile (so negative ones
\* and ones above max_tile occur).
BarrierTileArrays(ins) ==
  {ts \in SeqsOfLen(SeqsOfLen(-1..MaxTile, 0..MaxRows + 1), {Len(ins)}) :
     \A k \in 1..Len(ins) : Len(ts[k]) <= Len(ins[k].cells) + 1}

BarrierParams(ins) ==
  {[vname |-> "TileDataBarrierVertex", inputs_tiles |-> it, max_tile |-> mt] :
     it \in UNION {{ts, ts \o <<<<0>>>>} \cup (IF Len(ts) > 0 THEN {SubSeq(ts, 1, Len(ts) - 1)} ELSE {}) :
                   ts \in BarrierTileArrays(ins)},
     mt \in -1..MaxTile}

\* Whether the invocation reads or writes outside a vector.
BarrierOutOfBounds(ins, params) ==
  \/ Len(params.inputs_tiles) < Len(ins)
  \/ \E k \in 1..Len(params.inputs_tiles) : \E j \in 1..Len(params.inputs_tiles[k]) :
        params.inputs_tiles[k][j] < 0 \/ params.inputs_tiles[k][j] > params.max_tile

TileDataBarrier ==
  /\ pc = "ready" /\ prim = "barrier"
  /\ \E params \in BarrierParams(inputs) :
       \E ub \in (IF BarrierOutOfBounds(inputs, params) THEN UBOutcomes ELSE {NoUB}) :
          Finish(TileDataBarrierProgram(graph, inputs, outputs, params, ub), params)

\* Input lists of the equation compiler: up to two inputs of one extent.
EquationRows ==
  {rs \in SeqsOfLen(Rows, InputCounts) : \A j, k \in 1..Len(rs) : rs[j] = rs[k]}

InitEquation ==
  \E rs \in EquationRows : InitContext("equation", MkInputs(rs, [k \in 1..Len(rs) |-> "FLOAT"]), FALSE)

\* Equation descriptors: up to two input and two output descriptors named
\* from IONames (so names repeat and an InOut name may match no input), output
\* roles In, Out and InOut, and a tile array of up to MaxRows tiles (empty
\* and repeated tiles included).  The code compares names only for equality,
\* so the first name of a descriptor is "a"; it never compares tiles, so each
\* tile of the array is its predecessor or the predecessor's cyclic
\* successor.  A descriptor departs from the plain one (all ranks 1, no
\* performance estimate, no attributes) in at most one way: one rank of 2 or
\* 3, or the estimate together with both kinds of static attribute.
IONames == {"a", "b"}
IORanks == {1, 2, 3}

EquationTileArrays ==
  {t \in TileArrays :
     \A j \in 1..(Len(t) - 1) : t[j + 1] \in {t[j], (t[j] + 1) % (MaxTile + 1)}}

PlainOptions == [perf_estimate |-> 0, attributes_u32 |-> <<>>, attributes_f32 |-> <<>>]

EquationOptions ==
  {PlainOptions,
   [perf_estimate |-> 7, attributes_u32 |-> <<[name |-> "n", value |-> 3]>>,
    attributes_f32 |-> <<[name |-> "x", value |-> 1]>>]}

EquationInfos ==
  {io \in [ins : SeqsOfLen([name : IONames, rank : IORanks], 0..2),
           outs : SeqsOfLen([name : IONames, iotype : {"In", "Out", "InOut"}, rank : IORanks], 0..2),
           opt : EquationOptions] :
     /\ Cardinality({k \in 1..Len(io.ins) : io.ins[k].rank # 1}) +
        Cardinality({k \in 1..Len(io.outs) : io.outs[k].rank # 1}) +
        (IF io.opt = PlainOptions THEN 0 ELSE 1) <= 1
     /\ Len(io.ins) > 0 => io.ins[1].name = "a"
     /\ Len(io.ins) = 0 /\ Len(io.outs) > 0 => io.outs[1].name = "a"}

EquationParams ==
  {[pname |-> "prim", vname |-> "Vertex", tiles |-> tiles,
    inputs_info |-> [k \in 1..Len(io.ins) |->
                       [name |-> io.ins[k].name,
                        iotype |-> IF \E j \in 1..Len(io.outs) :
                                         io.outs[j].iotype = "InOut" /\ io.outs[j].name = io.ins[k].name
                                   THEN "InOut" ELSE "In",
                        dtype |-> "FLOAT", rank |-> io.ins[k].rank]],
    outputs_info |-> [k \in 1..Len(io.outs) |->
                        [name |-> io.outs[k].name, iotype |-> io.outs[k].iotype,
                         dtype |-> "HALF", rank |-> io.outs[k].rank]],
    attributes_u32 |-> io.opt.attributes_u32, attributes_f32 |-> io.opt.attributes_f32,
    perf_estimate |-> io.opt.perf_estimate] :
     tiles \in EquationTileArrays, io \in EquationInfos}

TileMapEquationCall ==
  /\ pc = "ready" /\ prim = "equation"
  /\ \E eq \in EquationParams :
       \E nd \in (IF Len(inputs) # Len(eq.inputs_info) THEN BOOLEAN ELSE {FALSE}) :
          \E ub \in (IF nd /\ Len(inputs) > Len(eq.inputs_info) /\ Len(eq.tiles) > 0
                     THEN UBOutcomes ELSE {NoUB}) :
             LET r == TileMapEquationCallProgram(graph, inputs, outputs, eq, ub, nd) IN
             /\ pc' = IF r.err = "" THEN "built" ELSE "error"
             /\ attrs' = eq
             /\ graph' = r.graph
             /\ prog' = r.prog
             /\ outputs' = r.outputs
             /\ err' = r.err
             /\ ndebug' = nd
             /\ UNCHANGED <<prim, inputs, mem, executed>>

Run ==
  /\ pc = "built"
  /\ pc' = "ran"
  /\ mem' = RunProgram(InitialMem(graph, inputs), prog, 1)
  /\ executed' = ExecutedSets(prog, 1)
  /\ UNCHANGED <<prim, ndebug, inputs, attrs, graph, prog, outputs, err>>

NextSharded == TilePutSharded \/ Run
SpecSharded == InitSharded /\ [][NextSharded]_vars

NextGather == TileGather \/ Run
SpecGather == InitGather /\ [][NextGather]_vars

NextBarrier == TileDataBarrier \/ Run
SpecBarrier == InitBarrier /\ [][NextBarrier]_vars

NextEquation == TileMapEquationCall \/ Run
SpecEquation == InitEquation /\ [][NextEquation]_vars

\* The two primitives that emit a compute set.
InitComputeSets == InitBarrier \/ InitEquation
NextComputeSets == TileDataBarrier \/ TileMapEquationCall \/ Run
SpecComputeSets == InitComputeSets /\ [][NextComputeSets]_vars

---------------------------------------------------------------------------
(* Properties.                                                             *)

Returned == pc \in {"built", "ran"}
Invoked == pc # "ready"

Range(f) == {f[i] : i \in DOMAIN f}
Injective(f) == \A i, j \in DOMAIN f : f[i] = f[j] => i = j

\* Copy steps of the program that write cell c.
CopiesInto(c) == {s \in CopySteps(prog) : c \in Range(prog[s].dst)}

\* Destination slots of a gather whose reads of indices and previous_tiles
\* are defined.
GatherSlots == {i \in 1..Len(attrs.tiles) : i <= Len(attrs.indices)}
GatherSrc(i) == attrs.indices[i] + 1
GatherSameTile(i) == attrs.previous_tiles[GatherSrc(i)] = attrs.tiles[i]

\* C1: cross-tile gather copy elision.  In every returned gather, a slot i
\* whose source tile previous_tiles[indices[i]] equals new_tiles[i] is the
\* very storage of input slot indices[i] and no copy writes it; any other
\* slot is one freshly allocated item of its own, mapped to new_tiles[i],
\* written by exactly one copy, which reads input slot indices[i].  With an
\* index for every destination slot, the copies (and the allocations) are as
\* many as the slots whose source and destination tiles differ.
C1_GatherCopyElision ==
  (prim = "gather" /\ Returned) =>
    LET out == outputs[1].cells
        input == inputs[1].cells
        differ == {i \in GatherSlots : ~GatherSameTile(i)}
    IN /\ \A i \in GatherSlots :
            IF GatherSameTile(i)
            THEN /\ out[i] = input[GatherSrc(i)]
                 /\ CopiesInto(out[i]) = {}
            ELSE /\ out[i] \in FreshCells(graph, inputs)
                 /\ \A j \in 1..Len(out) : out[j] = out[i] => j = i
                 /\ TilesOfCell(graph, out[i]) = {attrs.tiles[i]}
                 /\ Cardinality(CopiesInto(out[i])) = 1
                 /\ \A s \in CopiesInto(out[i]) :
                      prog[s] = Copy(<<input[GatherSrc(i)]>>, <<out[i]>>)
       /\ Len(attrs.indices) >= Len(attrs.tiles) =>
            /\ Len(prog) = Cardinality(differ)
            /\ CopySteps(prog) = 1..Len(prog)
            /\ Len(graph.vars) = Cardinality(differ)
            /\ Cardinality(FreshCells(graph, inputs)) = Cardinality(differ)

\* A returned gather with an aliased slot and a copied slot.
C1_Witness ==
  /\ prim = "gather" /\ pc = "built"
  /\ Len(attrs.tiles) = 2 /\ Len(attrs.indices) = 2
  /\ GatherSameTile(1) /\ ~GatherSameTile(2)
  /\ Len(prog) = 1

\* C2: cross-tile gather value correctness.  After the returned program has
\* run, the single output has len(new_tiles) slots and slot i holds the value
\* of input slot indices[i], aliased or copied, repeated indices included.
C2_GatherValues ==
  (prim = "gather" /\ Returned) =>
    /\ Len(outputs) = 1
    /\ Len(outputs[1].cells) = Len(attrs.tiles)
    /\ outputs[1].dtype = inputs[1].dtype
    /\ pc = "ran" =>
         \A i \in GatherSlots :
            mem[outputs[1].cells[i]] = InitialMem(graph, inputs)[inputs[1].cells[GatherSrc(i)]]

\* A gather that ran with a repeated index, one slot aliased and one copied.
C2_Witness ==
  /\ prim = "gather" /\ pc = "ran"
  /\ Len(attrs.tiles) = 2 /\ Len(attrs.indices) = 2
  /\ attrs.indices[1] = attrs.indices[2]
  /\ GatherSameTile(1) /\ ~GatherSameTile(2)

\* C3: sharded placement result.  With exactly one input X and a tile array T
\* of X's leading extent, the invocation returns; it allocates one tensor, of
\* X's element type, with len(T) partitions that share no storage with X (nor
\* with each other), partition i mapped to T[i]; the program is exactly one
\* copy from X to the output; after it ran partition i holds X[i].
C3_ShardedResult ==
  (prim = "sharded" /\ Invoked /\ Len(inputs) = 1
     /\ Len(attrs.tile_array) = Len(inputs[1].cells)) =>
    /\ Returned
    /\ Len(outputs) = 1
    /\ Len(graph.vars) = 1
    /\ graph.vars[1].cells = outputs[1].cells
    /\ Len(outputs[1].cells) = Len(attrs.tile_array)
    /\ outputs[1].dtype = inputs[1].dtype
    /\ Range(outputs[1].cells) = FreshCells(graph, inputs)
    /\ Range(outputs[1].cells) \cap Range(inputs[1].cells) = {}
    /\ Injective(outputs[1].cells)
    /\ \A i \in 1..Len(attrs.tile_array) :
         TilesOfCell(graph, outputs[1].cells[i]) = {attrs.tile_array[i]}
    /\ prog = <<Copy(inputs[1].cells, outputs[1].cells)>>
    /\ pc = "ran" =>
         \A i \in 1..Len(attrs.tile_array) :
            mem[outputs[1].cells[i]] = InitialMem(graph, inputs)[inputs[1].cells[i]]

\* A sharded placement over two different tiles that ran.
C3_Witness ==
  /\ prim = "sharded" /\ pc = "ran"
  /\ Len(inputs) = 1 /\ Len(attrs.tile_array) = 2
  /\ attrs.tile_array[1] # attrs.tile_array[2]

\* C4: sharded placement validation.  With a number of inputs other than one,
\* or a tile array whose length differs from the input's leading extent, the
\* invocation ends in the validation error, with nothing allocated, no copy
\* emitted and the outputs list as it was.
C4_ShardedValidation ==
  (prim = "sharded" /\ Invoked
     /\ (Len(inputs) # 1 \/ Len(attrs.tile_array) # Len(inputs[1].cells))) =>
    /\ pc = "error"
    /\ err = "poplibs_error"
    /\ graph = EmptyGraph(inputs)
    /\ prog = <<>>
    /\ outputs = <<>>

\* One input of two slots and a tile array of one tile: rejected.
C4_Witness ==
  /\ prim = "sharded" /\ pc = "error"
  /\ Len(inputs) = 1 /\ Len(inputs[1].cells) = 2 /\ Len(attrs.tile_array) = 1

\* The barrier descriptor's invariants: one tile array per input, one tile
\* per slot, every tile index in [0, max_tile].
WellFormedBarrier ==
  /\ Len(attrs.inputs_tiles) = Len(inputs)
  /\ \A idx \in 1..Len(inputs) :
       /\ Len(attrs.inputs_tiles[idx]) = Len(inputs[idx].cells)
       /\ \A k \in 1..Len(inputs[idx].cells) : attrs.inputs_tiles[idx][k] \in 0..attrs.max_tile

\* C5: barrier identity.  Every returned barrier hands back exactly the input
\* list (same length, order, storage and element types), allocates nothing and
\* emits no copy.
C5_BarrierIdentity ==
  (prim = "barrier" /\ Returned) =>
    /\ outputs = inputs
    /\ graph.vars = <<>>
    /\ FreshCells(graph, inputs) = {}
    /\ CopySteps(prog) = {}

\* A returned barrier over two inputs of different element types.
C5_Witness ==
  /\ prim = "barrier" /\ pc = "built"
  /\ Len(inputs) = 2 /\ inputs[1].dtype = "CHAR" /\ inputs[2].dtype = "FLOAT"
  /\ Len(graph.vertices) > 0

\* Slots (input, position) of the barrier's inputs, and the vertices whose
\* data port holds a slot's storage.
BarrierSlots == {<<idx, k>> \in (1..Len(inputs)) \X Rows : k <= Len(inputs[idx].cells)}
DataCells(v) == {graph.vertices[v].conns[1].slots[j].cell : j \in 1..Len(graph.vertices[v].conns[1].slots)}
VerticesOf(c) == {v \in 1..Len(graph.vertices) : c \in DataCells(v)}
\* Whether inputs_tiles assigns slot s a tile for which a bucket exists.
Assigned(s) ==
  /\ s[1] <= Len(attrs.inputs_tiles)
  /\ s[2] <= Len(attrs.inputs_tiles[s[1]])
  /\ attrs.inputs_tiles[s[1]][s[2]] \in 0..attrs.max_tile

BitWidth(t) ==
  IF t \in {"BOOL", "CHAR", "SIGNED_CHAR", "UNSIGNED_CHAR"} THEN 8
  ELSE IF t \in {"SHORT", "UNSIGNED_SHORT", "HALF"} THEN 16
  ELSE IF t \in {"INT", "UNSIGNED_INT", "FLOAT"} THEN 32
  ELSE 64
UnsignedOfWidth(w) ==
  IF w = 8 THEN "UNSIGNED_CHAR"
  ELSE IF w = 16 THEN "UNSIGNED_SHORT"
  ELSE IF w = 32 THEN "UNSIGNED_INT"
  ELSE "UNSIGNED_LONGLONG"
OwnerType(c) == inputs[CHOOSE idx \in 1..Len(inputs) : c \in Range(inputs[idx].cells)].dtype
Unsupported == {idx \in 1..Len(inputs) : BitWidth(inputs[idx].dtype) \notin {8, 16, 32}}

C8_BarrierSingleFence ==
  (prim = "barrier" /\ Invoked) =>
    /\ Len(inputs) = 0 => pc = "error" /\ err = "poplibs_error" /\ graph = EmptyGraph(inputs)
    /\ Returned =>
         /\ Len(inputs) >= 1
         /\ graph.sets = 1
         /\ \A v \in 1..Len(graph.vertices) : graph.vertices[v].cs = 1
         /\ prog = <<Execute(1)>>
         /\ pc = "ran" => executed = <<1>>

\* A barrier with two vertices whose program ran.
C8_Witness ==
  /\ prim = "barrier" /\ pc = "ran"
  /\ Len(inputs) = 2 /\ Len(graph.vertices) = 2
  /\ executed = <<1>>

\* Output descriptors of the invoked equation with role InOut whose name is
\* the name of no input descriptor.
UnresolvedInOut ==
  {k \in 1..Len(attrs.outputs_info) :
     /\ attrs.outputs_info[k].iotype = "InOut"
     /\ \A j \in 1..Len(attrs.inputs_info) :
          attrs.inputs_info[j].name # attrs.outputs_info[k].name}

\* C9: equation compiler output allocation.  In every returned equation call
\* whose input list has one tensor per input descriptor, the outputs list has
\* one handle per output descriptor, in descriptor order: the handle of an
\* InOut descriptor is the handle of the first input whose descriptor has the
\* same name, the handle of an Out descriptor is a tensor of the descriptor's
\* element type made of newly allocated cells, one per tile of the equation's
\* tile array and mapped to that tile, disjoint from every other output, and
\* nothing else was allocated.
C9_EquationOutputs ==
  (prim = "equation" /\ Returned /\ Len(inputs) = Len(attrs.inputs_info)) =>
    /\ Len(outputs) = Len(attrs.outputs_info)
    /\ \A k \in 1..Len(attrs.outputs_info) :
         LET o == attrs.outputs_info[k] IN
         /\ o.iotype \in {"InOut", "Out"}
         /\ o.iotype = "InOut" =>
              \E j \in 1..Len(inputs) :
                 /\ attrs.inputs_info[j].name = o.name
                 /\ \A i \in 1..(j - 1) : attrs.inputs_info[i].name # o.name
                 /\ outputs[k] = inputs[j]
         /\ o.iotype = "Out" =>
              /\ outputs[k].dtype = o.dtype
              /\ Len(outputs[k].cells) = Len(attrs.tiles)
              /\ Injective(outputs[k].cells)
              /\ Range(outputs[k].cells) \subseteq FreshCells(graph, inputs)
              /\ \A j \in 1..Len(attrs.tiles) :
                   TilesOfCell(graph, outputs[k].cells[j]) = {attrs.tiles[j]}
              /\ \A k2 \in 1..Len(outputs) :
                   k2 # k => Range(outputs[k].cells) \cap Range(outputs[k2].cells) = {}
    /\ FreshCells(graph, inputs) =
         UNION {Range(outputs[k].cells) :
                  k \in {n \in 1..Len(outputs) : attrs.outputs_info[n].iotype = "Out"}}

C9_Witness ==
  /\ prim = "equation" /\ pc = "ran"
  /\ Len(inputs) = 2 /\ Len(attrs.inputs_info) = 2
  /\ attrs.inputs_info[1].name # attrs.inputs_info[2].name
  /\ Len(attrs.tiles) = 2 /\ attrs.tiles[1] # attrs.tiles[2]
  /\ Len(attrs.outputs_info) = 2
  /\ attrs.outputs_info[1].iotype = "Out"
  /\ attrs.outputs_info[2].iotype = "InOut"
  /\ attrs.outputs_info[2].name = attrs.inputs_info[2].name

\* C10: equation compiler unresolved reference.  Every invoked equation call
\* with an InOut output descriptor whose name is the name of no input
\* descriptor has ended in an error, and its outputs list holds no handle.
C10_UnresolvedInOut ==
  (prim = "equation" /\ Invoked /\ UnresolvedInOut # {}) =>
    pc = "error" /\ outputs = <<>>

\* The same with one input tensor per input descriptor, where the lookup's
\* position past the descriptors is also past the inputs: the call throws at
\* the lookup, or earlier at an output descriptor of an unknown role.
C10_MatchedLists ==
  (prim = "equation" /\ Invoked /\ UnresolvedInOut # {}
     /\ Len(inputs) = Len(attrs.inputs_info)) =>
    pc = "error" /\ err \in {"out_of_range", "runtime_error"} /\ outputs = <<>>

\* Whether one tensor was passed per input descriptor.
MatchedLists == Len(inputs) = Len(attrs.inputs_info)

\* The descriptors of the invoked equation that add() connects, in connection
\* order: every input, then the outputs of role Out.
ConnectedInfos ==
  LET IsOut(o) == o.iotype = "Out" IN
  attrs.inputs_info \o SelectSeq(attrs.outputs_info, IsOut)

\* The tensors connected, in the same order.
ConnectedTensors ==
  LET outIdx == {k \in 1..Len(attrs.outputs_info) : attrs.outputs_info[k].iotype = "Out"}
      RECURSIVE Pick(_)
      Pick(k) == IF k > Len(outputs) THEN <<>>
                 ELSE IF k \in outIdx THEN <<outputs[k]>> \o Pick(k + 1)
                 ELSE Pick(k + 1)
  IN inputs \o Pick(1)

\* Whether some I/O descriptor of the invoked equation has a rank other than
\* 1 or 2.
BadRank ==
  \/ \E k \in 1..Len(attrs.inputs_info) : attrs.inputs_info[k].rank \notin {1, 2}
  \/ \E k \in 1..Len(attrs.outputs_info) : attrs.outputs_info[k].rank \notin {1, 2}

\* Connections of the returned equation follow the descriptors' ranks: with
\* one tensor per input descriptor, connection i of every vertex is made to
\* the port of the i-th connected descriptor, flattened when its rank is 1 and
\* as it is when its rank is 2.
RankViews ==
  (Returned /\ MatchedLists) =>
    \A v \in 1..Len(graph.vertices) :
       /\ Len(graph.vertices[v].conns) = Len(ConnectedInfos)
       /\ \A i \in 1..Len(ConnectedInfos) :
            /\ graph.vertices[v].conns[i].port = ConnectedInfos[i].name
            /\ ConnectedInfos[i].rank = 1 => graph.vertices[v].conns[i].view = "flat"
            /\ ConnectedInfos[i].rank = 2 => graph.vertices[v].conns[i].view = "asis"
            /\ ConnectedInfos[i].rank \in {1, 2}

\* C11: equation compiler connection rank.  In every invoked equation call,
\* rank 1 connects the flattened slice and rank 2 the slice unchanged, and a
\* call whose descriptor has any I/O descriptor of a rank other than 1 or 2
\* (whatever the tile array and the descriptor's role) has ended in an error.
C11_ConnectionRank ==
  (prim = "equation" /\ Invoked) =>
    /\ RankViews
    /\ BadRank => pc = "error"

\* Whether add() attempts a connection for a descriptor of a rank other than
\* 1 or 2: an input descriptor that has a tensor, or an output of role Out.
ConnectedBadRank ==
  \/ \E k \in 1..Min(Len(inputs), Len(attrs.inputs_info)) : attrs.inputs_info[k].rank \notin {1, 2}
  \/ \E k \in 1..Len(attrs.outputs_info) :
        attrs.outputs_info[k].iotype = "Out" /\ attrs.outputs_info[k].rank \notin {1, 2}

\* C11 as the code has it: the rank is checked when a connection is made.
\* In every invoked equation call, rank 1 connects the flattened slice and
\* rank 2 the slice unchanged, and a call with a non-empty tile array and a
\* connected descriptor (an input that has a tensor, or an Out output) of a
\* rank other than 1 or 2 has ended in an error.
C11_ConnectedRanks ==
  (prim = "equation" /\ Invoked) =>
    /\ RankViews
    /\ (Len(attrs.tiles) > 0 /\ ConnectedBadRank) => pc = "error"

\* The rank error itself: raised for an Out output of rank 3 on two tiles.
C11_Witness ==
  /\ prim = "equation" /\ pc = "error" /\ err = "poplibs_error"
  /\ MatchedLists /\ Len(inputs) = 1 /\ Len(attrs.tiles) = 2
  /\ attrs.inputs_info[1].rank = 1
  /\ Len(attrs.outputs_info) = 1
  /\ attrs.outputs_info[1].iotype = "Out" /\ attrs.outputs_info[1].rank = 3

\* C12: no partial success.  Every invocation, of any primitive, that has
\* ended in an error has left the graph as it was at entry (no tensor
\* allocated, no tile mapping set, no compute set or vertex added) and the
\* outputs list as it was (empty).
C12_NoPartialSuccess ==
  pc = "error" => graph = EmptyGraph(inputs) /\ outputs = <<>>

\* C13: gather descriptor validation.  Every invoked gather whose descriptor
\* has a number of indices other than its number of new tiles has ended in an
\* error, with no program and no output returned.
C13_GatherValidation ==
  (prim = "gather" /\ Invoked /\ Len(attrs.indices) # Len(attrs.tiles)) =>
    pc = "error" /\ prog = <<>> /\ outputs = <<>>

\* C14: equation compiler emission.  Every returned equation call with tile
\* array T has added exactly one compute set, executed exactly once by the
\* program, holding exactly Len(T) vertices of the equation's vertex name;
\* vertex j is mapped to T[j] and connected, in order, to slice j of every
\* input and of every output of role Out and to nothing else (so an InOut
\* output gets no connection of its own), under the descriptors' port names
\* when one tensor was passed per input descriptor; its performance estimate
\* is set iff perf_estimate > 0, and it carries every unsigned-integer and
\* floating-point attribute.
C14_EquationEmission ==
  (prim = "equation" /\ Returned) =>
    /\ graph.sets = 1
    /\ prog = <<Execute(1)>>
    /\ pc = "ran" => executed = <<1>>
    /\ Len(graph.vertices) = Len(attrs.tiles)
    /\ \A j \in 1..Len(attrs.tiles) :
         LET v == graph.vertices[j] IN
         /\ v.cs = 1
         /\ v.vname = attrs.vname
         /\ v.tile = attrs.tiles[j]
         /\ Len(v.conns) = Len(ConnectedTensors)
         /\ \A i \in 1..Len(ConnectedTensors) :
              /\ j <= Len(ConnectedTensors[i].cells)
              /\ v.conns[i].slots = <<[cell |-> ConnectedTensors[i].cells[j],
                                       dtype |-> ConnectedTensors[i].dtype]>>
              /\ MatchedLists => v.conns[i].port = ConnectedInfos[i].name
         /\ v.perf = (IF attrs.perf_estimate > 0 THEN attrs.perf_estimate ELSE 0)
         /\ (v.perf # 0) <=> (attrs.perf_estimate > 0)
         /\ v.attributes = attrs.attributes_u32 \o attrs.attributes_f32

\* A run equation on tiles 1 then 0 with two inputs, an Out and an InOut
\* output, a performance estimate and attributes of both kinds.
C14_Witness ==
  /\ prim = "equation" /\ pc = "ran"
  /\ attrs.tiles = <<1, 0>>
  /\ Len(inputs) = 2 /\ MatchedLists
  /\ Len(attrs.outputs_info) = 2
  /\ attrs.outputs_info[1].iotype = "InOut" /\ attrs.outputs_info[2].iotype = "Out"
  /\ attrs.perf_estimate > 0
  /\ Len(attrs.attributes_u32) > 0 /\ Len(attrs.attributes_f32) > 0
  /\ Len(graph.vertices) = 2 /\ Len(graph.vertices[2].conns) = 3

\* Cells connected to vertex v on any port, and those connected to a port of
\* an equation vertex that the vertex writes (role Out or InOut).
ConnectedCells(v) ==
  UNION {{graph.vertices[v].conns[i].slots[n].cell : n \in 1..Len(graph.vertices[v].conns[i].slots)} :
         i \in 1..Len(graph.vertices[v].conns)}

WrittenCells(v) ==
  UNION {{graph.vertices[v].conns[i].slots[n].cell : n \in 1..Len(graph.vertices[v].conns[i].slots)} :
         i \in {c \in 1..Len(graph.vertices[v].conns) : ConnectedInfos[c].iotype \in {"Out", "InOut"}}}

\* Slice j of every Out output and of every input of role InOut.
WritableSlice(j) ==
  {ConnectedTensors[i].cells[j] :
     i \in {c \in 1..Len(ConnectedInfos) : ConnectedInfos[c].iotype \in {"Out", "InOut"}}}

BarrierDescriptorViolation ==
  \/ Len(attrs.inputs_tiles) # Len(inputs)
  \/ \E idx \in 1..Len(attrs.inputs_tiles) : \E k \in 1..Len(attrs.inputs_tiles[idx]) :
        attrs.inputs_tiles[idx][k] \notin 0..attrs.max_tile

\* C16: barrier bucket bounds.  Every invoked barrier that got past the
\* input-count check either has a descriptor with one tile array per input
\* and every tile index in [0, max_tile], so that every bucketing access is
\* to an existing entry of inputs_tiles and of the max_tile + 1 buckets, or
\* has ended in an error; a returned barrier has vertices on tiles of
\* [0, max_tile] only.
C16_BarrierBucketBounds ==
  (prim = "barrier" /\ Invoked /\ Len(inputs) >= 1) =>
    /\ BarrierDescriptorViolation => pc = "error"
    /\ Returned => \A v \in 1..Len(graph.vertices) : graph.vertices[v].tile \in 0..attrs.max_tile

====
